---------------------------- MODULE Spec2Model ----------------------------
(***************************************************************************)
(* Model of scripts/ws_handshake_probe.py: a one-shot WebSocket handshake  *)
(* probe.  main() parses the command line, runs one probe (--single) or    *)
(* two probes (without and with Sec-WebSocket-Extensions), prints the      *)
(* results and derives the process exit code.                              *)
(*                                                                         *)
(* Text is modelled as a sequence of code points (integers), bytes as a    *)
(* sequence of integers in 0..255.                                         *)
(***************************************************************************)
EXTENDS Integers, Sequences, FiniteSets, TLC

(***************************************************************************)
(* Bounds of the model.                                                    *)
(***************************************************************************)
\* Longest response, in fragments, that SpecParse feeds to the classifier.
MaxFrags == 4

(***************************************************************************)
(* Program constants.                                                      *)
(***************************************************************************)
MinPort == 1
MaxPort == 65535
DefaultPort == 8080
DefaultTimeout == 5
RecvSize == 8192
AsciiMax == 127
\* argparse's parser.error() and the OSError handler both end with status 2;
\* an exception nobody catches ends the interpreter with status 1.
ExitUsage == 2
ExitOSError == 2
ExitUncaught == 1
ExitOk == 0
ExitFail == 1
ExitExtRejected == 3
ExitExtOnly == 4

(***************************************************************************)
(* String literals of the source, as code points.                          *)
(***************************************************************************)
\* "\r\n"
CRLF == <<13, 10>>
\* "\r\n\r\n"
CRLFCRLF == <<13, 10, 13, 10>>
\* "HTTP/1.1 101"
HTTP101 == <<72, 84, 84, 80, 47, 49, 46, 49, 32, 49, 48, 49>>
\* "<no response>"
NoResponse == <<60, 110, 111, 32, 114, 101, 115, 112, 111, 110, 115, 101, 62>>
\* "GET "
TxtGet == <<71, 69, 84, 32>>
\* " HTTP/1.1"
TxtHttp11 == <<32, 72, 84, 84, 80, 47, 49, 46, 49>>
\* "Host: "
TxtHost == <<72, 111, 115, 116, 58, 32>>
\* ":"
TxtColon == <<58>>
\* "Upgrade: websocket"
TxtUpgrade == <<85, 112, 103, 114, 97, 100, 101, 58, 32, 119, 101, 98, 115,
                111, 99, 107, 101, 116>>
\* "Connection: Upgrade"
TxtConnection == <<67, 111, 110, 110, 101, 99, 116, 105, 111, 110, 58, 32,
                   85, 112, 103, 114, 97, 100, 101>>
\* "Sec-WebSocket-Key: "
TxtKey == <<83, 101, 99, 45, 87, 101, 98, 83, 111, 99, 107, 101, 116, 45,
            75, 101, 121, 58, 32>>
\* "Sec-WebSocket-Version: 13"
TxtVersion == <<83, 101, 99, 45, 87, 101, 98, 83, 111, 99, 107, 101, 116, 45,
                86, 101, 114, 115, 105, 111, 110, 58, 32, 49, 51>>
\* "Sec-WebSocket-Extensions: permessage-deflate; client_max_window_bits"
TxtExtensions == <<83, 101, 99, 45, 87, 101, 98, 83, 111, 99, 107, 101, 116,
                   45, 69, 120, 116, 101, 110, 115, 105, 111, 110, 115, 58,
                   32, 112, 101, 114, 109, 101, 115, 115, 97, 103, 101, 45,
                   100, 101, 102, 108, 97, 116, 101, 59, 32, 99, 108, 105,
                   101, 110, 116, 95, 109, 97, 120, 95, 119, 105, 110, 100,
                   111, 119, 95, 98, 105, 116, 115>>

(***************************************************************************)
(* Text operations of the Python runtime used by the source.                *)
(***************************************************************************)
\* str.startswith
StartsWith(s, p) ==
    /\ Len(p) <= Len(s)
    /\ \A i \in 1..Len(p) : s[i] = p[i]

\* Index of the first occurrence of sep in s, 0 when there is none (str.find + 1).
Find(s, sep) ==
    LET hits == {i \in 1..(Len(s) - Len(sep) + 1) :
                    \A j \in 1..Len(sep) : s[i + j - 1] = sep[j]}
    IN  IF hits = {} THEN 0 ELSE CHOOSE i \in hits : \A k \in hits : i <= k

\* s.split(sep, 1)[0]: the text before the first sep, all of s when sep is absent.
SplitHead(s, sep) ==
    LET at == Find(s, sep)
    IN  IF at = 0 THEN s ELSE SubSeq(s, 1, at - 1)

\* sep.join(lines)
RECURSIVE Join(_, _)
Join(lines, sep) ==
    IF Len(lines) = 0 THEN <<>>
    ELSE IF Len(lines) = 1 THEN lines[1]
    ELSE lines[1] \o sep \o Join(Tail(lines), sep)

\* str(n) of a non-negative integer, in decimal.
RECURSIVE Decimal(_)
Decimal(n) ==
    IF n < 10 THEN <<48 + n>>
    ELSE Append(Decimal(n \div 10), 48 + (n % 10))

\* bytes.decode("latin1", errors="replace"): byte b is code point b, and no
\* byte is undecodable.
DecodeLatin1(bytes) == [i \in 1..Len(bytes) |-> bytes[i]]

\* str.encode("ascii") succeeds iff every code point is below 128.
IsAscii(s) == \A i \in 1..Len(s) : s[i] <= AsciiMax

(***************************************************************************)
(* run_probe, its pure parts.                                              *)
(***************************************************************************)
\* headers with the extensions line appended whatever include_extensions says.
headers_always_extensions(host, port, path, key, include_extensions) ==
    << TxtGet \o path \o TxtHttp11,
       TxtHost \o host \o TxtColon \o Decimal(port),
       TxtUpgrade,
       TxtConnection,
       TxtKey \o key,
       TxtVersion,
       TxtExtensions >>

\* The header lines of the request (lines 38-47).
headers(host, port, path, key, include_extensions) ==
    LET base == << TxtGet \o path \o TxtHttp11,
                   TxtHost \o host \o TxtColon \o Decimal(port),
                   TxtUpgrade,
                   TxtConnection,
                   TxtKey \o key,
                   TxtVersion >>
    IN  IF include_extensions THEN Append(base, TxtExtensions) ELSE base

\* The request text (line 48).
request_text(host, port, path, key, include_extensions) ==
    Join(headers(host, port, path, key, include_extensions), CRLF) \o CRLFCRLF

\* ProbeResult accepting on a prefix one character too short ("HTTP/1.1 10").
ProbeResult_short_prefix(label, response) ==
    IF Len(response) = 0
    THEN [label |-> label, status_line |-> NoResponse,
          header_block |-> <<>>, ok |-> FALSE]
    ELSE LET text == DecodeLatin1(response)
             header_block == SplitHead(text, CRLFCRLF)
             status_line == SplitHead(header_block, CRLF)
         IN  [label |-> label, status_line |-> status_line,
              header_block |-> header_block,
              ok |-> StartsWith(status_line, SubSeq(HTTP101, 1, Len(HTTP101) - 1))]

\* ProbeResult without the empty-read branch: an empty read is parsed like any
\* other response.
ProbeResult_no_sentinel(label, response) ==
    LET text == DecodeLatin1(response)
        header_block == SplitHead(text, CRLFCRLF)
        status_line == SplitHead(header_block, CRLF)
    IN  [label |-> label, status_line |-> status_line,
         header_block |-> header_block,
         ok |-> StartsWith(status_line, HTTP101)]

\* The ProbeResult built from what recv returned (lines 57-73).
ProbeResult(label, response) ==
    IF Len(response) = 0
    THEN [label |-> label, status_line |-> NoResponse,
          header_block |-> <<>>, ok |-> FALSE]
    ELSE LET text == DecodeLatin1(response)
             header_block == SplitHead(text, CRLFCRLF)
             status_line == SplitHead(header_block, CRLF)
         IN  [label |-> label, status_line |-> status_line,
              header_block |-> header_block,
              ok |-> StartsWith(status_line, HTTP101)]

(***************************************************************************)
(* print_result (lines 103-107): the texts it prints, one per print call.  *)
(***************************************************************************)
\* "no-ext"
LabelNoExt == <<110, 111, 45, 101, 120, 116>>
\* "with-ext"
LabelWithExt == <<119, 105, 116, 104, 45, 101, 120, 116>>
\* "["
TxtOpen == <<91>>
\* "] "
TxtClose == <<93, 32>>
\* "---"
TxtSeparator == <<45, 45, 45>>

summary_line(result) == TxtOpen \o result.label \o TxtClose \o result.status_line

\* print_result that ignores --verbose.
print_result_never_verbose(result, verbose) == << summary_line(result) >>

print_result(result, verbose) ==
    IF verbose /\ Len(result.header_block) # 0
    THEN << summary_line(result), result.header_block, TxtSeparator >>
    ELSE << summary_line(result) >>

(***************************************************************************)
(* main, its pure parts.                                                   *)
(***************************************************************************)
\* The range check with its lower bound off by one.
port_in_range_from_zero(port) == 0 <= port /\ port <= MaxPort

\* Line 98.
port_in_range(port) == MinPort <= port /\ port <= MaxPort

\* Line 121.
single_label(extensions) == IF extensions THEN LabelWithExt ELSE LabelNoExt

\* single_exit_code answering with a comparison-mode code.
single_exit_code_compare_code(result) ==
    IF result.ok THEN ExitOk ELSE ExitExtRejected

\* Line 124.
single_exit_code(result) == IF result.ok THEN ExitOk ELSE ExitFail

\* compare_exit_code with the two asymmetric codes exchanged.
compare_exit_code_swapped(without_ext, with_ext) ==
    IF without_ext.ok /\ with_ext.ok THEN ExitOk
    ELSE IF without_ext.ok /\ ~with_ext.ok THEN ExitExtOnly
    ELSE IF ~without_ext.ok /\ with_ext.ok THEN ExitExtRejected
    ELSE ExitFail

\* Lines 149-155.
compare_exit_code(without_ext, with_ext) ==
    IF without_ext.ok /\ with_ext.ok THEN ExitOk
    ELSE IF without_ext.ok /\ ~with_ext.ok THEN ExitExtRejected
    ELSE IF ~without_ext.ok /\ with_ext.ok THEN ExitExtOnly
    ELSE ExitFail

(***************************************************************************)
(* Inputs: the command line, the random key, what the network does.        *)
(***************************************************************************)
\* "127.0.0.1"
HostDefault == <<49, 50, 55, 46, 48, 46, 48, 46, 49>>
\* "/"
PathDefault == <<47>>
\* "/café": a path that str.encode("ascii") rejects
PathNonAscii == <<47, 99, 97, 102, 233>>
\* base64 of sixteen 0x00 bytes and of sixteen 0xFF bytes
KeyZeros == <<65, 65, 65, 65, 65, 65, 65, 65, 65, 65, 65, 65, 65, 65, 65, 65,
              65, 65, 65, 65, 65, 65, 61, 61>>
KeyOnes == <<47, 47, 47, 47, 47, 47, 47, 47, 47, 47, 47, 47, 47, 47, 47, 47,
             47, 47, 47, 47, 47, 119, 61, 61>>

Hosts == {HostDefault}
Ports == {0, MinPort, DefaultPort, MaxPort, MaxPort + 1}
Paths == {PathDefault, PathNonAscii}
Timeouts == {1, DefaultTimeout}
Keys == {KeyZeros, KeyOnes}

Argv == [host : Hosts, port : Ports, path : Paths, timeout : Timeouts,
         single : BOOLEAN, extensions : BOOLEAN, verbose : BOOLEAN]

\* Pieces of server responses.
\* "HTTP/1.1 101 Switching Protocols"
FragSwitching == <<72, 84, 84, 80, 47, 49, 46, 49, 32, 49, 48, 49, 32, 83,
                   119, 105, 116, 99, 104, 105, 110, 103, 32, 80, 114, 111,
                   116, 111, 99, 111, 108, 115>>
\* "HTTP/1.1 400 Bad Request"
FragBadRequest == <<72, 84, 84, 80, 47, 49, 46, 49, 32, 52, 48, 48, 32, 66,
                    97, 100, 32, 82, 101, 113, 117, 101, 115, 116>>
\* "HTTP/1.1 10": one character short of the accepted prefix
FragShort == <<72, 84, 84, 80, 47, 49, 46, 49, 32, 49, 48>>
\* "1"
FragOne == <<49>>
\* a byte outside ASCII
FragHigh == <<255>>

Fragments == {FragSwitching, FragBadRequest, FragShort, FragOne, TxtUpgrade,
              CRLF, CRLFCRLF, FragHigh}

\* What one recv(8192) can return in the driver model: nothing, an accepted
\* and a rejected handshake with headers and body, a truncated status line,
\* and a response that begins with the blank line.
Responses ==
    { <<>>,
      FragSwitching \o CRLF \o TxtUpgrade \o CRLFCRLF \o FragHigh,
      FragBadRequest \o CRLFCRLF,
      FragShort,
      CRLFCRLF \o FragSwitching }

(***************************************************************************)
(* State.                                                                  *)
(***************************************************************************)
VARIABLES
    argv,       \* the command line
    pc,         \* where main is
    frame,      \* run_probe's arguments and key for the call in progress
    request,    \* run_probe's request text
    conns,      \* every socket created so far, in order
    response,   \* run_probe's response bytes
    exc,        \* the exception in flight, "none" when there is none
    results,    \* the ProbeResults returned so far, in order
    stdout,     \* the texts printed to standard output, one per print call
    stderr,     \* what was printed to standard error
    exit_code   \* the process's exit status, NoExit while it runs

vars == <<argv, pc, frame, request, conns, response, exc, results, stdout,
          stderr, exit_code>>

NoExit == -1
NoFrame == [include_extensions |-> FALSE, label |-> <<>>, key |-> <<>>]

Init ==
    /\ argv \in Argv
    /\ pc = "parse_args"
    /\ frame = NoFrame
    /\ request = <<>>
    /\ conns = <<>>
    /\ response = <<>>
    /\ exc = "none"
    /\ results = <<>>
    /\ stdout = <<>>
    /\ stderr = <<>>
    /\ exit_code = NoExit

(***************************************************************************)
(* Actions.                                                                *)
(***************************************************************************)
\* parse_args (lines 76-100): parser.error prints the usage message and ends
\* the process.
parse_args ==
    /\ pc = "parse_args"
    /\ IF port_in_range(argv.port)
       THEN /\ pc' = "call"
            /\ UNCHANGED <<stderr, exit_code>>
       ELSE /\ pc' = "exited"
            /\ stderr' = Append(stderr, "usage")
            /\ exit_code' = ExitUsage
    /\ UNCHANGED <<argv, frame, request, conns, response, exc, results, stdout>>

\* The arguments main passes to the next run_probe call (lines 115-122,
\* 126-133, 134-141).
call_include_extensions ==
    IF argv.single THEN argv.extensions ELSE Len(results) = 1

\* The two comparison-mode labels (and with them the order) exchanged.
call_label_reversed ==
    IF argv.single THEN single_label(argv.extensions)
    ELSE IF Len(results) = 0 THEN LabelWithExt ELSE LabelNoExt

call_label ==
    IF argv.single THEN single_label(argv.extensions)
    ELSE IF Len(results) = 0 THEN LabelNoExt ELSE LabelWithExt

\* main calls run_probe, which draws its key and builds the request
\* (lines 37-48).
run_probe_enter ==
    /\ pc = "call"
    /\ \E key \in Keys :
        /\ frame' = [include_extensions |-> call_include_extensions,
                     label |-> call_label, key |-> key]
        /\ request' = request_text(argv.host, argv.port, argv.path, key,
                                   call_include_extensions)
    /\ response' = <<>>
    /\ pc' = "connect"
    /\ UNCHANGED <<argv, conns, exc, results, stdout, stderr, exit_code>>

\* socket.create_connection (line 50), outside the try block.
new_conn ==
    [host |-> argv.host, port |-> argv.port, timeout |-> argv.timeout,
     label |-> frame.label, open |-> TRUE, sent |-> <<>>]

run_probe_connect ==
    /\ pc = "connect"
    /\ \/ /\ conns' = Append(conns, new_conn)
          /\ pc' = "sendall"
          /\ UNCHANGED exc
       \/ /\ exc' = "OSError"
          /\ pc' = "except"
          /\ UNCHANGED conns
    /\ UNCHANGED <<argv, frame, request, response, results, stdout, stderr,
                   exit_code>>

\* request.encode("ascii") and sock.sendall (line 52).
run_probe_sendall ==
    /\ pc = "sendall"
    /\ IF ~IsAscii(request)
       THEN /\ exc' = "UnicodeEncodeError"
            /\ pc' = "close"
            /\ UNCHANGED conns
       ELSE \/ /\ conns' = [conns EXCEPT ![Len(conns)].sent = request]
               /\ pc' = "recv"
               /\ UNCHANGED exc
            \/ /\ exc' = "OSError"
               /\ pc' = "close"
               /\ UNCHANGED conns
    /\ UNCHANGED <<argv, frame, request, response, results, stdout, stderr,
                   exit_code>>

\* sock.recv(8192) (line 53): some bytes, none, or a failure or timeout.
run_probe_recv ==
    /\ pc = "recv"
    /\ \/ /\ \E bytes \in Responses :
                /\ Len(bytes) <= RecvSize
                /\ response' = bytes
          /\ pc' = "close"
          /\ UNCHANGED exc
       \/ /\ exc' = "OSError"
          /\ pc' = "close"
          /\ UNCHANGED response
    /\ UNCHANGED <<argv, frame, request, conns, results, stdout, stderr,
                   exit_code>>

\* close() after the try block instead of in a finally clause: an exception
\* skips it.
run_probe_close_no_finally ==
    /\ pc = "close"
    /\ conns' = IF exc = "none"
                THEN [conns EXCEPT ![Len(conns)].open = FALSE]
                ELSE conns
    /\ pc' = IF exc = "none" THEN "return" ELSE "except"
    /\ UNCHANGED <<argv, frame, request, response, exc, results, stdout,
                   stderr, exit_code>>

\* finally: sock.close() (lines 54-55), then the exception, if any, goes on.
run_probe_close ==
    /\ pc = "close"
    /\ conns' = [conns EXCEPT ![Len(conns)].open = FALSE]
    /\ pc' = IF exc = "none" THEN "return" ELSE "except"
    /\ UNCHANGED <<argv, frame, request, response, exc, results, stdout,
                   stderr, exit_code>>

\* run_probe returns its ProbeResult (lines 57-73) and main goes on to the
\* next call or to printing.
run_probe_return ==
    /\ pc = "return"
    /\ results' = Append(results, ProbeResult(frame.label, response))
    /\ pc' = IF argv.single \/ Len(results) = 1 THEN "print" ELSE "call"
    /\ UNCHANGED <<argv, frame, request, conns, response, exc, stdout, stderr,
                   exit_code>>

\* The handler reporting the failure as an ordinary negative outcome.
main_except_exit_fail ==
    /\ pc = "except"
    /\ exc = "OSError"
    /\ stderr' = Append(stderr, "probe failed")
    /\ exit_code' = ExitFail
    /\ pc' = "exited"
    /\ UNCHANGED <<argv, frame, request, conns, response, exc, results, stdout>>

\* except OSError (lines 142-144).
main_except ==
    /\ pc = "except"
    /\ exc = "OSError"
    /\ stderr' = Append(stderr, "probe failed")
    /\ exit_code' = ExitOSError
    /\ pc' = "exited"
    /\ UNCHANGED <<argv, frame, request, conns, response, exc, results, stdout>>

\* An exception that is no OSError leaves main; the interpreter prints the
\* traceback and ends.
main_uncaught ==
    /\ pc = "except"
    /\ exc # "OSError"
    /\ stderr' = Append(stderr, "traceback")
    /\ exit_code' = ExitUncaught
    /\ pc' = "exited"
    /\ UNCHANGED <<argv, frame, request, conns, response, exc, results, stdout>>

\* The print_result calls (line 123; lines 146-147).
printed_lines ==
    IF argv.single
    THEN print_result(results[1], argv.verbose)
    ELSE print_result(results[1], argv.verbose)
            \o print_result(results[2], argv.verbose)

main_print ==
    /\ pc = "print"
    /\ stdout' = stdout \o printed_lines
    /\ pc' = "exit"
    /\ UNCHANGED <<argv, frame, request, conns, response, exc, results, stderr,
                   exit_code>>

\* main's return value becomes the exit status (lines 124, 149-155, 159).
main_return_value ==
    IF argv.single
    THEN single_exit_code(results[1])
    ELSE compare_exit_code(results[1], results[2])

main_return ==
    /\ pc = "exit"
    /\ exit_code' = main_return_value
    /\ pc' = "exited"
    /\ UNCHANGED <<argv, frame, request, conns, response, exc, results, stdout,
                   stderr>>

Next ==
    \/ parse_args
    \/ run_probe_enter
    \/ run_probe_connect
    \/ run_probe_sendall
    \/ run_probe_recv
    \/ run_probe_close
    \/ run_probe_return
    \/ main_except
    \/ main_uncaught
    \/ main_print
    \/ main_return

Spec == Init /\ [][Next]_vars

(***************************************************************************)
(* SpecParse: run_probe's classification of what recv returned, over every *)
(* response made of at most MaxFrags fragments.  It starts where a         *)
(* single-mode probe has sent its request, read the response and closed    *)
(* the socket.                                                             *)
(***************************************************************************)
RECURSIVE Concats(_)
Concats(n) ==
    IF n = 0 THEN {<<>>}
    ELSE LET shorter == Concats(n - 1)
         IN  shorter \cup {s \o f : s \in shorter, f \in Fragments}

WireResponses == {bytes \in Concats(MaxFrags) : Len(bytes) <= RecvSize}

InitParse ==
    /\ argv \in {a \in Argv : /\ a.single
                              /\ a.port = DefaultPort
                              /\ a.path = PathDefault
                              /\ a.timeout = DefaultTimeout
                              /\ ~a.verbose}
    /\ pc = "return"
    /\ frame = [include_extensions |-> argv.extensions,
                label |-> single_label(argv.extensions), key |-> KeyZeros]
    /\ request = request_text(argv.host, argv.port, argv.path, KeyZeros,
                              argv.extensions)
    /\ conns = << [host |-> argv.host, port |-> argv.port,
                   timeout |-> argv.timeout,
                   label |-> single_label(argv.extensions),
                   open |-> FALSE, sent |-> request] >>
    /\ response \in WireResponses
    /\ exc = "none"
    /\ results = <<>>
    /\ stdout = <<>>
    /\ stderr = <<>>
    /\ exit_code = NoExit

NextParse == run_probe_return

SpecParse == InitParse /\ [][NextParse]_vars

(***************************************************************************)
(* Properties.                                                             *)
(***************************************************************************)
\* Helpers of the properties.
EndsWith(s, p) ==
    /\ Len(p) <= Len(s)
    /\ SubSeq(s, Len(s) - Len(p) + 1, Len(s)) = p

Contains(s, p) == \E i \in 1..(Len(s) - Len(p) + 1) : SubSeq(s, i, i + Len(p) - 1) = p

\* "Sec-WebSocket-Extensions"
ExtensionsName == <<83, 101, 99, 45, 87, 101, 98, 83, 111, 99, 107, 101, 116,
                    45, 69, 120, 116, 101, 110, 115, 105, 111, 110, 115>>
\* "permessage-deflate; client_max_window_bits"
ExtensionsValue == <<112, 101, 114, 109, 101, 115, 115, 97, 103, 101, 45,
                     100, 101, 102, 108, 97, 116, 101, 59, 32, 99, 108, 105,
                     101, 110, 116, 95, 109, 97, 120, 95, 119, 105, 110, 100,
                     111, 119, 95, 98, 105, 116, 115>>
\* ": "
ColonSpace == <<58, 32>>

\* The first line of a response is `line`.
FirstLineIs(bytes, line) == bytes = line \/ StartsWith(bytes, line \o CRLF)

\* The result run_probe gives for an empty read.
IsEmptyReadResult(r) ==
    /\ r.status_line = NoResponse
    /\ r.header_block = <<>>
    /\ r.ok = FALSE

\* The state's `response` is the one results[Len(results)] was built from.
LastResponseKept == Len(results) > 0 /\ pc \in {"call", "print", "exit"}

\* main came to its normal end having printed its results.
PrintedAll == pc \in {"exit", "exited"} /\ exc = "none" /\ Len(results) > 0

\* C1: in comparison mode, when both probes have returned a result, the exit
\* code is 0, 3, 4 or 1 for (no-ext.ok, with-ext.ok) = (T,T), (T,F), (F,T),
\* (F,F).
C1_CompareExitTable ==
    (pc = "exited" /\ ~argv.single /\ Len(results) = 2) =>
        /\ (results[1].ok /\ results[2].ok) => exit_code = 0
        /\ (results[1].ok /\ ~results[2].ok) => exit_code = 3
        /\ (~results[1].ok /\ results[2].ok) => exit_code = 4
        /\ (~results[1].ok /\ ~results[2].ok) => exit_code = 1

C1_Witness ==
    /\ pc = "exited" /\ ~argv.single /\ Len(results) = 2
    /\ ~results[1].ok /\ results[2].ok
    /\ exit_code = 4

\* C2: in comparison mode a connect, send or receive failure leads only to
\* the handler: no further probe is started (no further connection, no
\* further result), the error is printed to the error stream and the exit
\* code is 2, never 0, 1, 3 or 4.
C2_FailureAborts ==
    (~argv.single /\ exc = "OSError") =>
        /\ pc \in {"close", "except", "exited"}
        /\ Len(conns) <= Len(results) + 1
        /\ (Len(results) = 0 => \A i \in 1..Len(conns) : conns[i].label # LabelWithExt)
        /\ pc = "exited" =>
            /\ exit_code = 2
            /\ stderr = <<"probe failed">>

C2_Witness ==
    /\ ~argv.single /\ exc = "OSError" /\ pc = "exited"
    /\ Len(results) = 0 /\ Len(conns) = 1
    /\ exit_code = 2

\* C3: in single-probe mode at most one connection is ever opened and the
\* codes 3 and 4 never occur; when the probe has returned, exactly one
\* connection was opened, its request carries the extensions header iff
\* --extensions was given, the result is printed, and the exit code is 0 if
\* ok and 1 otherwise.
C3_SingleMode ==
    argv.single =>
        /\ Len(conns) <= 1
        /\ Len(results) <= 1
        /\ exit_code \notin {3, 4}
        /\ (pc = "exited" /\ Len(results) = 1) =>
            /\ Len(conns) = 1
            /\ Contains(conns[1].sent, CRLF \o ExtensionsName \o ColonSpace)
                    <=> argv.extensions
            /\ Len(stdout) >= 1
            /\ stdout[1] = TxtOpen \o (IF argv.extensions THEN LabelWithExt
                                       ELSE LabelNoExt)
                              \o TxtClose \o results[1].status_line
            /\ exit_code = IF results[1].ok THEN 0 ELSE 1

C3_Witness ==
    /\ argv.single /\ argv.extensions /\ pc = "exited"
    /\ Len(results) = 1 /\ ~results[1].ok
    /\ exit_code = 1

\* C4: every ProbeResult has ok true iff its status_line begins with
\* "HTTP/1.1 101"; a response whose first line is "HTTP/1.1 101 Switching
\* Protocols" gives ok = TRUE whatever follows, one whose first line is
\* "HTTP/1.1 400 Bad Request" gives ok = FALSE.
C4_OkIffPrefix ==
    /\ \A i \in 1..Len(results) :
          results[i].ok <=>
              /\ Len(results[i].status_line) >= 12
              /\ SubSeq(results[i].status_line, 1, 12) = HTTP101
    /\ LastResponseKept =>
          /\ FirstLineIs(response, FragSwitching) => results[Len(results)].ok
          /\ FirstLineIs(response, FragBadRequest) => ~results[Len(results)].ok

C4_Witness ==
    /\ LastResponseKept
    /\ StartsWith(response, FragSwitching \o CRLF \o TxtUpgrade)
    /\ results[Len(results)].ok
    /\ results[Len(results)].status_line = FragSwitching

\* C5: an empty read raises nothing and gives status_line "<no response>",
\* header_block "" and ok FALSE; in comparison mode the with-ext probe still
\* runs after an empty no-ext read, both results are printed and the exit
\* code is the table's (4 or 1), not 2.
C5_EmptyRead ==
    /\ (LastResponseKept /\ Len(response) = 0) =>
          /\ exc = "none"
          /\ results[Len(results)] =
                [label |-> frame.label, status_line |-> NoResponse,
                 header_block |-> <<>>, ok |-> FALSE]
    /\ (~argv.single /\ Len(results) = 1 /\ IsEmptyReadResult(results[1])) =>
          /\ pc \notin {"print", "exit"}
          /\ pc = "exited" => exc = "OSError"
    /\ (~argv.single /\ pc = "exited" /\ Len(results) = 2
            /\ IsEmptyReadResult(results[1])) =>
          /\ Len(conns) = 2
          /\ conns[2].label = LabelWithExt
          /\ stdout[1] = TxtOpen \o LabelNoExt \o TxtClose \o NoResponse
          /\ stdout[2] = TxtOpen \o LabelWithExt \o TxtClose
                            \o results[2].status_line
          /\ exit_code = IF results[2].ok THEN 4 ELSE 1

C5_Witness ==
    /\ ~argv.single /\ pc = "exited" /\ Len(results) = 2
    /\ IsEmptyReadResult(results[1])
    /\ results[2].ok
    /\ exit_code = 4

\* C6: no socket exists before the port is validated; a port outside
\* 1..65535 ends the process with the usage error and no socket ever
\* created; a port inside 1..65535 is accepted and the run goes on to a
\* probe.
C6_PortValidation ==
    /\ pc = "parse_args" => conns = <<>>
    /\ argv.port \notin 1..65535 =>
          /\ conns = <<>>
          /\ pc \in {"parse_args", "exited"}
          /\ pc = "exited" => (exit_code = ExitUsage /\ stderr = <<"usage">>)
    /\ argv.port \in 1..65535 =>
          /\ pc # "parse_args" => frame # NoFrame \/ pc = "call"
          /\ \A i \in 1..Len(stderr) : stderr[i] # "usage"
          /\ pc = "exited" => frame # NoFrame

C6_Witness ==
    /\ argv.port = 65536
    /\ pc = "exited"
    /\ conns = <<>>
    /\ stderr = <<"usage">>

\* C7: a connection is open only while run_probe is between its connect and
\* its close; whenever run_probe has returned or raised, and when the
\* process has ended, every connection is closed.
C7_ClosedOnExit ==
    \A i \in 1..Len(conns) :
        conns[i].open => (i = Len(conns) /\ pc \in {"sendall", "recv", "close"})

C7_Witness ==
    /\ pc = "except"
    /\ exc = "OSError"
    /\ Len(conns) = 1
    /\ ~conns[1].open
    /\ conns[1].sent # <<>>

\* C8: in comparison mode the first connection is the no-ext probe's and the
\* second the with-ext probe's, both to the same host and port with the same
\* timeout and path; the first request has no extensions header and the
\* second has it; the second connection exists only once the first is
\* closed, and at most one connection is open at a time.
C8_Sequential ==
    ~argv.single =>
        /\ Len(conns) <= 2
        /\ Cardinality({i \in 1..Len(conns) : conns[i].open}) <= 1
        /\ \A i \in 1..Len(conns) :
              /\ conns[i].host = argv.host
              /\ conns[i].port = argv.port
              /\ conns[i].timeout = argv.timeout
              /\ conns[i].label = IF i = 1 THEN LabelNoExt ELSE LabelWithExt
              /\ conns[i].sent # <<>> =>
                    /\ StartsWith(conns[i].sent,
                                  TxtGet \o argv.path \o TxtHttp11 \o CRLF
                                    \o TxtHost \o argv.host \o TxtColon
                                    \o Decimal(argv.port) \o CRLF)
                    /\ Contains(conns[i].sent, CRLF \o ExtensionsName \o ColonSpace)
                          <=> (i = 2)
        /\ Len(conns) = 2 => (~conns[1].open /\ Len(results) >= 1)

C8_Witness ==
    /\ ~argv.single
    /\ Len(conns) = 2
    /\ conns[2].open
    /\ ~conns[1].open
    /\ conns[2].sent # <<>>

\* C9: the request contains a Sec-WebSocket-Extensions header iff
\* include_extensions is true; when present it is the last header, with the
\* value "permessage-deflate; client_max_window_bits"; what is sent is that
\* request, so single mode sends the header iff --extensions is given.
C9_ExtensionsHeader ==
    pc \in {"connect", "sendall", "recv"} =>
        /\ Contains(request, ExtensionsName) <=> frame.include_extensions
        /\ frame.include_extensions =>
              EndsWith(request, CRLF \o ExtensionsName \o ColonSpace
                                  \o ExtensionsValue \o CRLFCRLF)
        /\ argv.single => (frame.include_extensions <=> argv.extensions)
        /\ pc = "recv" => conns[Len(conns)].sent = request

C9_Witness ==
    /\ pc = "recv"
    /\ argv.single /\ argv.extensions
    /\ EndsWith(conns[1].sent, CRLF \o ExtensionsName \o ColonSpace
                                  \o ExtensionsValue \o CRLFCRLF)

\* The lines C10 expects for one result: summary, header block, separator.
RECURSIVE VerboseLines(_)
VerboseLines(rs) ==
    IF Len(rs) = 0 THEN <<>>
    ELSE << TxtOpen \o rs[1].label \o TxtClose \o rs[1].status_line,
            rs[1].header_block, TxtSeparator >> \o VerboseLines(Tail(rs))

\* The same, with the header block and separator only for a result whose
\* header block is not empty.
RECURSIVE VerboseLinesNonEmpty(_)
VerboseLinesNonEmpty(rs) ==
    IF Len(rs) = 0 THEN <<>>
    ELSE (IF rs[1].header_block # <<>>
          THEN << TxtOpen \o rs[1].label \o TxtClose \o rs[1].status_line,
                  rs[1].header_block, TxtSeparator >>
          ELSE << TxtOpen \o rs[1].label \o TxtClose \o rs[1].status_line >>)
         \o VerboseLinesNonEmpty(Tail(rs))

\* C10 as stated: with --verbose every printed result's summary line is
\* followed by its header block and a separator line.
C10_Original ==
    (argv.verbose /\ PrintedAll) => stdout = VerboseLines(results)

\* C10 amended: with --verbose every printed result whose header block is
\* not empty has its summary line followed by the header block and a
\* separator line; a result with an empty header block prints its summary
\* line only.
C10_VerboseNonEmpty ==
    (argv.verbose /\ PrintedAll) => stdout = VerboseLinesNonEmpty(results)

C10_Witness ==
    /\ argv.verbose /\ PrintedAll /\ ~argv.single
    /\ results[1].header_block = <<>>
    /\ results[2].header_block # <<>>
    /\ Len(stdout) = 4
    /\ stdout[4] = TxtSeparator

=============================================================================
